---- MODULE Spec2Model ----
(***************************************************************************)
(* Model of services/data_service.py: YahooFinanceDataService.             *)
(*                                                                         *)
(* The service owns one field, _price_cache (None or a dict symbol ->      *)
(* DataFrame).  Its collaborators are the trades spreadsheet read by       *)
(* load_trades and the price provider called by yf.download; what they     *)
(* hand back on a call is an input of that call.                           *)
(*                                                                         *)
(* A DataFrame is modelled by its date index, one price column and the     *)
(* number of columns (0 or 1): [index, data, ncols].  A missing value      *)
(* (NaN) is the number NaN below.  An Optional value is a set with at most *)
(* one element.  An exception is the field "error" of a call's result.     *)
(***************************************************************************)
EXTENDS Integers, Sequences, FiniteSets, TLC

\* Bounds of the model.
MaxDate == 3
MaxRows == 2

Dates == 1..MaxDate
Symbols == {"A", "B"}

\* The missing value pandas puts in a slot that has no observation.
NaN == 0

\* Python's None for an Optional field, and a present value.
None == {}
Some(v) == {v}
TheValue(opt) == CHOOSE v \in opt : TRUE

Range(s) == {s[i] : i \in 1..Len(s)}

Min(S) == CHOOSE x \in S : \A y \in S : x <= y

\* sorted(all_dates): the ascending list of a set of dates.
RECURSIVE sorted(_)
sorted(S) == IF S = {} THEN <<>> ELSE <<Min(S)>> \o sorted(S \ {Min(S)})

----------------------------------------------------------------------------
\* DataFrames.

Frame(idx, dat, n) == [index |-> idx, data |-> dat, ncols |-> n]

\* The closing price the provider quotes for a trading day.  Every day has
\* its own price, so a value in a panel tells which day it was observed on.
Quote(d) == 10 * d

\* The frames the provider returns for a symbol with data: one row per
\* trading day it has, strictly increasing dates, a price in every row.
SeriesFrames ==
    {Frame(sorted(S), [i \in 1..Cardinality(S) |-> Quote(sorted(S)[i])], 1)
       : S \in SUBSET Dates}

\* An empty frame that has no columns either.
NoColumnsFrame == Frame(<<>>, <<>>, 0)

\* A frame whose index repeats a date (the provider's duplicated last bar).
DuplicateFrame == Frame(<<1, 1>>, <<Quote(1), Quote(1)>>, 1)

Frames == SeriesFrames \cup {NoColumnsFrame, DuplicateFrame}

\* One invocation of yf.download: it raises, or it returns a frame.
Outcome(good, f) == [ok |-> good, df |-> f]
FetchOutcomes == {Outcome(FALSE, NoColumnsFrame)} \cup {Outcome(TRUE, f) : f \in Frames}

\* DataFrame.empty: some axis has length 0.
empty(df) == Len(df.index) = 0 \/ df.ncols = 0

is_unique(idx) == \A i, j \in 1..Len(idx) : idx[i] = idx[j] => i = j

\* The price df holds at the label d (NaN when it has no such row or no column).
at(df, d) ==
    IF df.ncols = 0 \/ d \notin Range(df.index) THEN NaN
    ELSE df.data[CHOOSE i \in 1..Len(df.index) : df.index[i] = d]

\* reindex whose result is thrown away.
reindex_dropped(df, labels) == df

\* DataFrame.reindex(labels), for a frame whose index is unique.
reindex(df, labels) ==
    Frame(labels,
          IF df.ncols = 0 THEN <<>> ELSE [i \in 1..Len(labels) |-> at(df, labels[i])],
          df.ncols)

\* The last non-missing value of data at a position <= i, NaN when there is none.
RECURSIVE last_valid(_, _)
last_valid(data, i) ==
    IF i = 0 THEN NaN
    ELSE IF data[i] # NaN THEN data[i]
    ELSE last_valid(data, i - 1)

\* ffill whose result is thrown away.
ffill_dropped(df) == df

\* DataFrame.ffill().
ffill(df) ==
    Frame(df.index, [i \in 1..Len(df.data) |-> last_valid(df.data, i)], df.ncols)


----------------------------------------------------------------------------
\* load_trades.

\* The trades spreadsheet as pd.read_excel finds it: absent, or a list of rows,
\* each one coercible to a Trade ("ok") or not ("bad").
TradesFile(there, rs) == [exists |-> there, rows |-> rs]
TradesFiles ==
    {TradesFile(FALSE, <<>>)} \cup
    {TradesFile(TRUE, rs) : rs \in UNION {[1..n -> {"ok", "bad"}] : n \in 0..MaxRows}}

\* load_trades: FileNotFoundError when the file is absent, the coercion's
\* exception on the first bad row, otherwise one Trade per row.
load_trades(file) ==
    IF ~file.exists THEN [error |-> "FileNotFoundError", trades |-> <<>>]
    ELSE IF \E i \in 1..Len(file.rows) : file.rows[i] = "bad"
    THEN [error |-> "Exception", trades |-> <<>>]
    ELSE [error |-> "none", trades |-> file.rows]

----------------------------------------------------------------------------
\* get_price_history.

NoFrames == [s \in {} |-> NoColumnsFrame]

\* if self._price_cache: an empty dict counts as no cache.
cached_truthy(cache) == cache # None /\ DOMAIN TheValue(cache) # {}

\* if self._price_cache is not None
cached(cache) == cache # None

\* The download loop with one more attempt at an invocation that raised.
download_retry(symbols, outs) ==
    LET n == Len(symbols)
        bad == {i \in 1..n : ~outs[i].ok}
        made == IF bad = {} THEN n ELSE Min(bad)
        kept == IF bad = {} THEN n ELSE Min(bad) - 1
        tries == IF bad = {} THEN n ELSE made + 1
        latest(s) == CHOOSE i \in 1..kept :
                        symbols[i] = s /\ \A j \in 1..kept : symbols[j] = s => j <= i
    IN  [failed |-> bad # {},
         log    |-> [i \in 1..tries |->
                        IF i <= made THEN [symbol |-> symbols[i], ok |-> outs[i].ok]
                        ELSE [symbol |-> symbols[made], ok |-> FALSE]],
         frames |-> [s \in {symbols[i] : i \in 1..kept} |-> outs[latest(s)].df]]

\* The download loop over symbols, outs[i] being what the i-th invocation of
\* yf.download does.  The loop ends at the first invocation that raises;
\* frames[symbol] = df keeps the latest frame of a symbol listed twice.
\* log lists the invocations made: the symbol asked for, and whether the
\* invocation returned (ok) or raised.
download(symbols, outs) ==
    LET n == Len(symbols)
        bad == {i \in 1..n : ~outs[i].ok}
        made == IF bad = {} THEN n ELSE Min(bad)
        kept == IF bad = {} THEN n ELSE Min(bad) - 1
        latest(s) == CHOOSE i \in 1..kept :
                        symbols[i] = s /\ \A j \in 1..kept : symbols[j] = s => j <= i
    IN  [failed |-> bad # {},
         log    |-> [i \in 1..made |-> [symbol |-> symbols[i], ok |-> outs[i].ok]],
         frames |-> [s \in {symbols[i] : i \in 1..kept} |-> outs[latest(s)].df]]

\* all_dates as the dates common to all frames (an intersection).
all_dates_common(frames) ==
    {d \in Dates : \A s \in DOMAIN frames : d \in Range(frames[s].index)}

\* all_dates after the update loop: every date of every frame's index.
all_dates(frames) == UNION {Range(frames[s].index) : s \in DOMAIN frames}

\* The loop with empty frames left as they are (if not df.empty: reindex).
reindex_all_skips_empty(frames, complete_dates) ==
    IF \E s \in DOMAIN frames : ~is_unique(frames[s].index)
    THEN [failed |-> TRUE, frames |-> frames]
    ELSE [failed |-> FALSE,
          frames |-> [s \in DOMAIN frames |->
                        IF empty(frames[s]) THEN frames[s]
                        ELSE ffill(reindex(frames[s], complete_dates))]]

\* The reindex/ffill loop over the frames.  reindex raises ValueError on a
\* frame whose index has duplicate labels.
reindex_all(frames, complete_dates) ==
    IF \E s \in DOMAIN frames : ~is_unique(frames[s].index)
    THEN [failed |-> TRUE, frames |-> frames]
    ELSE [failed |-> FALSE,
          frames |-> [s \in DOMAIN frames |-> ffill(reindex(frames[s], complete_dates))]]

\* The alignment block without its guard, on an operation that raises when
\* it is given no frame (pd.concat of nothing).
align_unguarded(frames) ==
    IF DOMAIN frames = {} THEN [failed |-> TRUE, frames |-> frames]
    ELSE reindex_all(frames, sorted(all_dates(frames)))

\* The alignment block, skipped for an empty dict (if frames:).
align(frames) ==
    IF DOMAIN frames = {} THEN [failed |-> FALSE, frames |-> frames]
    ELSE reindex_all(frames, sorted(all_dates(frames)))

Result(c, e, r, l, f, a) ==
    [cache |-> c, error |-> e, returned |-> r, log |-> l, raw |-> f, aligned |-> a]

\* The cache assigned before the alignment: a failed alignment leaves the
\* frames as downloaded in it.
store_early(cache, dl, al) ==
    IF al.failed THEN Result(Some(dl.frames), "ValueError", None, dl.log, dl.frames, TRUE)
    ELSE Result(Some(al.frames), "none", Some(al.frames), dl.log, dl.frames,
                DOMAIN dl.frames # {})

\* self._price_cache = frames; return frames -- or the exception of the
\* alignment, which leaves the cache as it was.
store(cache, dl, al) ==
    IF al.failed THEN Result(cache, "ValueError", None, dl.log, dl.frames, TRUE)
    ELSE Result(Some(al.frames), "none", Some(al.frames), dl.log, dl.frames,
                DOMAIN dl.frames # {})

\* A failed download whose frames are aligned all the same.
after_download_aligns_partial(cache, dl) ==
    IF dl.failed THEN Result(cache, "FetchError", None, dl.log, NoFrames, TRUE)
    ELSE store(cache, dl, align(dl.frames))

\* A failed download that stores the frames it has (a partial panel).
after_download_stores_partial(cache, dl) ==
    IF dl.failed THEN Result(Some(dl.frames), "FetchError", None, dl.log, NoFrames, FALSE)
    ELSE store(cache, dl, align(dl.frames))

\* The try block after the download loop; a failed download has left it.
after_download(cache, dl) ==
    IF dl.failed THEN Result(cache, "FetchError", None, dl.log, NoFrames, FALSE)
    ELSE store(cache, dl, align(dl.frames))

\* A cache hit that first invokes the fetcher for the requested symbols the
\* cached panel lacks.
get_price_history_fetches_missing(cache, symbols, outs) ==
    IF cached(cache)
    THEN Result(cache, "none", cache,
                [i \in 1..Cardinality(Range(symbols) \ DOMAIN TheValue(cache)) |->
                    [symbol |-> CHOOSE x \in Range(symbols) \ DOMAIN TheValue(cache) : TRUE,
                     ok |-> TRUE]],
                NoFrames, FALSE)
    ELSE after_download(cache, download(symbols, outs))

\* get_price_history(symbols) called with _price_cache = cache.  The result
\* holds the cache after the call, the exception raised ("none" when it
\* returns), the dict returned, the invocations of yf.download, the frames
\* the download loop ended with when all its invocations returned, and
\* whether the alignment block was entered.
get_price_history(cache, symbols, outs) ==
    IF cached(cache) THEN Result(cache, "none", cache, <<>>, NoFrames, FALSE)
    ELSE after_download(cache, download(symbols, outs))

----------------------------------------------------------------------------
\* validate_data_integrity.

Verdict(c, e, g, v, l, f, q, a) ==
    [cache |-> c, error |-> e, caught |-> g, verdict |-> v, log |-> l, raw |-> f,
     queried |-> q, aligned |-> a]

\* The loop checking only the symbols the price data has an entry for.
all_available_present(tracked, price_data) ==
    \A i \in 1..Len(tracked) :
        tracked[i] \in DOMAIN price_data => ~empty(price_data[tracked[i]])

\* The loop over the tracked symbols: the entry exists and is not empty.
all_available(tracked, price_data) ==
    \A i \in 1..Len(tracked) :
        tracked[i] \in DOMAIN price_data /\ ~empty(price_data[tracked[i]])

\* The try block from the call of get_price_history on, r being its result.
check_prices(tracked, r) ==
    IF r.error # "none" THEN Verdict(r.cache, r.error, "none", FALSE, r.log, r.raw, TRUE,
                                  r.aligned)
    ELSE Verdict(r.cache, "none", "none", all_available(tracked, TheValue(r.returned)),
                 r.log, r.raw, TRUE, r.aligned)

\* The trade list checked for emptiness after the price history was fetched.
check_trades_late(cache, tracked, lt, outs) ==
    IF lt.error # "none" THEN Verdict(cache, lt.error, "none", FALSE, <<>>, NoFrames, FALSE,
                                   FALSE)
    ELSE IF lt.trades = <<>>
    THEN [check_prices(tracked, get_price_history(cache, tracked, outs))
             EXCEPT !.verdict = FALSE]
    ELSE check_prices(tracked, get_price_history(cache, tracked, outs))

\* The try block from the result lt of load_trades on.
check_trades(cache, tracked, lt, outs) ==
    IF lt.error # "none" THEN Verdict(cache, lt.error, "none", FALSE, <<>>, NoFrames, FALSE,
                                   FALSE)
    ELSE IF lt.trades = <<>>
    THEN Verdict(cache, "none", "none", FALSE, <<>>, NoFrames, FALSE, FALSE)
    ELSE check_prices(tracked, get_price_history(cache, tracked, outs))

\* except FileNotFoundError: return False.
except_FileNotFoundError(b) ==
    IF b.error # "FileNotFoundError" THEN b
    ELSE Verdict(b.cache, "none", b.error, FALSE, b.log, b.raw, b.queried, b.aligned)

\* except Exception: return False.  "caught" keeps the exception that was
\* swallowed; "error" is what reaches the caller.
except_Exception(b) ==
    IF b.error = "none" THEN b
    ELSE Verdict(b.cache, "none", b.error, FALSE, b.log, b.raw, b.queried, b.aligned)

\* validate_data_integrity() called with _price_cache = cache.
validate_data_integrity(cache, tracked, file, outs) ==
    except_Exception(check_trades(cache, tracked, load_trades(file), outs))

\* clear_cache that leaves the cache as it is.
clear_cache_kept(cache) == cache

\* clear_cache that resets the cache to an empty dict.
clear_cache_to_dict(cache) == Some(NoFrames)

\* clear_cache.
clear_cache(cache) == None

----------------------------------------------------------------------------
\* The service and its callers.

\* The argument lists get_price_history is called with.
Requests == {<<>>, <<"A">>, <<"B">>, <<"A", "B">>, <<"B", "A">>, <<"A", "A">>}

\* The keys of config.market.tracked_symbols, in dict order.
TrackedConfigs == {<<>>, <<"A">>, <<"A", "B">>}

\* What n successive invocations of yf.download do.
Answers(n) == [1..n -> FetchOutcomes]

VARIABLES
    price_cache,        \* self._price_cache
    tracked_symbols,    \* list(self.config.market.tracked_symbols.keys())
    last,               \* the latest call on the service, as its caller saw it
    prev                \* the call before it, and whether it left a cache

vars == <<price_cache, tracked_symbols, last, prev>>

\* What the latest call found: the operation called before it and whether
\* the cache was populated.
Before == [op |-> last.op, cached |-> price_cache # None]

NoFile == TradesFile(FALSE, <<>>)

\* What the caller of a call sees of it.
Call(o, syms, f, r, v, c) ==
    [op |-> o, symbols |-> syms, file |-> f, error |-> r.error, caught |-> c,
     returned |-> IF o = "get_price_history" THEN r.returned ELSE None,
     verdict |-> v, log |-> r.log, raw |-> r.raw, aligned |-> r.aligned]

NoCall(o) ==
    [op |-> o, symbols |-> <<>>, file |-> NoFile, error |-> "none", caught |-> "none",
     returned |-> None, verdict |-> FALSE, log |-> <<>>, raw |-> NoFrames,
     aligned |-> FALSE]

\* __init__: the cache starts as None.
Init ==
    /\ price_cache = None
    /\ tracked_symbols \in TrackedConfigs
    /\ last = NoCall("__init__")
    /\ prev = [op |-> "none", cached |-> FALSE]

Returns(symbols, r) ==
    /\ price_cache' = r.cache
    /\ last' = Call("get_price_history", symbols, NoFile, r, FALSE, "none")
    /\ prev' = Before
    /\ UNCHANGED tracked_symbols

\* A caller calls get_price_history(symbols).
GetPriceHistory ==
    \E symbols \in Requests :
      \E outs \in Answers(IF cached(price_cache) THEN 0 ELSE Len(symbols)) :
        Returns(symbols, get_price_history(price_cache, symbols, outs))

\* The invocations of yf.download a validate_data_integrity call can make.
ValidateFetches(lt) ==
    IF lt.error = "none" /\ ~cached(price_cache) THEN Len(tracked_symbols) ELSE 0

Answered(file, v) ==
    /\ price_cache' = v.cache
    /\ last' = Call("validate_data_integrity",
                    IF v.queried THEN tracked_symbols ELSE <<>>, file, v, v.verdict,
                    v.caught)
    /\ prev' = Before
    /\ UNCHANGED tracked_symbols

\* A caller calls validate_data_integrity().
ValidateDataIntegrity ==
    \E file \in TradesFiles :
      \E outs \in Answers(ValidateFetches(load_trades(file))) :
        Answered(file, validate_data_integrity(price_cache, tracked_symbols, file, outs))

\* A caller calls clear_cache().
ClearCache ==
    /\ price_cache' = clear_cache(price_cache)
    /\ last' = NoCall("clear_cache")
    /\ prev' = Before
    /\ UNCHANGED tracked_symbols

Next == GetPriceHistory \/ ValidateDataIntegrity \/ ClearCache

Spec == Init /\ [][Next]_vars

----------------------------------------------------------------------------
\* Properties.

\* The latest call missed the cache and stored a panel.
Populated == ~prev.cached /\ price_cache # None

\* The panel in the cache.
Panel == TheValue(price_cache)

Max(S) == CHOOSE x \in S : \A y \in S : y <= x

IsPrefix(s, t) == Len(s) <= Len(t) /\ \A i \in 1..Len(s) : s[i] = t[i]

Asked(log) == [i \in 1..Len(log) |-> log[i].symbol]

\* C1: after a cache miss that succeeds, the date index of every series of
\* the panel is strictly increasing and holds exactly the dates of the
\* fetched frames: every date of every frame, and no other date.
CalendarIsUnion ==
    Populated =>
        \A s \in DOMAIN Panel :
            /\ \A i, j \in 1..Len(Panel[s].index) :
                   i < j => Panel[s].index[i] < Panel[s].index[j]
            /\ \A d \in Dates :
                   d \in Range(Panel[s].index)
                       <=> \E t \in DOMAIN last.raw : d \in Range(last.raw[t].index)

\* A miss over two frames with disjoint dates, {1, 2} and {3}, gave the
\* calendar 1, 2, 3.
CalendarIsUnionWitness ==
    /\ Populated
    /\ last.op = "get_price_history"
    /\ DOMAIN last.raw = {"A", "B"}
    /\ last.raw["A"].index = <<1, 2>>
    /\ last.raw["B"].index = <<3>>
    /\ Panel["A"].index = <<1, 2, 3>>

\* The dates of the fetched frame of s that are not after d.
SeenBy(s, d) == {e \in Range(last.raw[s].index) : e <= d}

\* C2: after a cache miss that succeeds, the value of every symbol s at every
\* calendar date d is the value its fetched frame holds at the latest of its
\* dates <= d, and is missing when the frame has no date <= d.
ForwardFillLaw ==
    Populated =>
        \A s \in DOMAIN Panel :
            \A i \in 1..Len(Panel[s].index) :
                LET d == Panel[s].index[i] IN
                IF SeenBy(s, d) = {} \/ last.raw[s].ncols = 0
                THEN at(Panel[s], d) = NaN
                ELSE /\ at(Panel[s], d) # NaN
                     /\ at(Panel[s], d) = at(last.raw[s], Max(SeenBy(s, d)))

\* A observed on days 1 and 2 keeps the value of day 2 on day 3, and B
\* observed on day 3 only is missing on days 1 and 2.
ForwardFillLawWitness ==
    /\ Populated
    /\ DOMAIN last.raw = {"A", "B"}
    /\ last.raw["A"].index = <<1, 2>>
    /\ last.raw["B"].index = <<3>>
    /\ at(Panel["A"], 3) = Quote(2)
    /\ at(Panel["B"], 1) = NaN
    /\ at(Panel["B"], 2) = NaN
    /\ at(Panel["B"], 3) = Quote(3)

SameIndex(panel) == \A s, t \in DOMAIN panel : panel[s].index = panel[t].index

\* C3: in the panel the cache holds and in the panel a call returns, any two
\* series have the same date index.
SharedCalendar ==
    /\ price_cache # None => SameIndex(Panel)
    /\ last.returned # None => SameIndex(TheValue(last.returned))

\* Two symbols whose fetched frames had disjoint date ranges are in the
\* returned panel, each indexed by all three dates.
SharedCalendarWitness ==
    /\ last.op = "get_price_history"
    /\ last.returned # None
    /\ DOMAIN last.raw = {"A", "B"}
    /\ last.raw["A"].index = <<1>>
    /\ last.raw["B"].index = <<2, 3>>
    /\ TheValue(last.returned)["A"].index = <<1, 2, 3>>
    /\ TheValue(last.returned)["B"].index = <<1, 2, 3>>

\* C4: the call that populates the cache stores the panel it returns; from
\* then on, until clear_cache, a call of get_price_history with any symbol
\* list returns the cached panel, no call invokes the fetcher, and the cache
\* stays as it is.
CacheHitReturnsFirstPanel ==
    [][/\ (price_cache = None /\ price_cache' # None /\ last'.op = "get_price_history")
            => last'.returned = price_cache'
       /\ (price_cache # None /\ last'.op # "clear_cache")
            => /\ price_cache' = price_cache
               /\ last'.log = <<>>
               /\ last'.op = "get_price_history"
                    => last'.error = "none" /\ last'.returned = price_cache]_vars

\* A call for B on a cache populated for A alone returned the panel of A
\* without a fetch.
CacheHitReturnsFirstPanelWitness ==
    /\ prev.cached
    /\ last.op = "get_price_history"
    /\ last.symbols = <<"B">>
    /\ last.log = <<>>
    /\ price_cache # None
    /\ DOMAIN Panel = {"A"}
    /\ last.returned = price_cache

AnyFailed(log) == \E i \in 1..Len(log) : ~log[i].ok

Times(log, s) == Cardinality({i \in 1..Len(log) : log[i].symbol = s})

\* C5 as stated: the get_price_history call that follows clear_cache invokes
\* the fetcher exactly once for each requested symbol, and for no other.
RefetchOncePerSymbol ==
    (prev.op = "clear_cache" /\ last.op = "get_price_history") =>
        \A s \in Symbols :
            Times(last.log, s) = IF s \in Range(last.symbols) THEN 1 ELSE 0

\* C5, amended: the get_price_history call that follows clear_cache invokes
\* the fetcher for the entries of its symbol list, in list order and once per
\* entry, and stops at the first invocation that fails; when none fails it
\* has invoked it once for every entry of the list.
RefetchFollowsRequest ==
    (prev.op = "clear_cache" /\ last.op = "get_price_history") =>
        /\ IsPrefix(Asked(last.log), last.symbols)
        /\ \A i \in 1..Len(last.log) : ~last.log[i].ok => i = Len(last.log)
        /\ ~AnyFailed(last.log) => Asked(last.log) = last.symbols

\* Right after clear_cache, a request for A and B fetched A, then B.
RefetchFollowsRequestWitness ==
    /\ prev.op = "clear_cache"
    /\ last.op = "get_price_history"
    /\ last.symbols = <<"A", "B">>
    /\ Asked(last.log) = <<"A", "B">>
    /\ ~AnyFailed(last.log)
    /\ price_cache # None

\* C6: a get_price_history call in which a fetch or the alignment fails
\* raises, returns nothing and leaves the cache as it found it (so does a
\* validate_data_integrity call in which one fails); and the
\* get_price_history call that follows a failed one fetches its list from the
\* first entry on, all of it unless a fetch fails again.
FailureLeavesCache ==
    [][/\ (last'.op = "get_price_history"
             /\ (AnyFailed(last'.log) \/ last'.error = "ValueError"))
            => /\ price_cache' = price_cache
               /\ last'.error # "none"
               /\ last'.returned = None
       /\ (last'.op = "validate_data_integrity"
             /\ (AnyFailed(last'.log) \/ last'.caught = "ValueError"))
            => price_cache' = price_cache
       /\ (last.op = "get_price_history" /\ last.error # "none"
             /\ last'.op = "get_price_history")
            => /\ IsPrefix(Asked(last'.log), last'.symbols)
               /\ last'.symbols # <<>> => last'.log # <<>>
               /\ ~AnyFailed(last'.log) => Asked(last'.log) = last'.symbols]_vars

\* A get_price_history call failed on its second fetch, after another call
\* that had failed too, and the cache is still None.
FailureLeavesCacheWitness ==
    /\ prev.op = "get_price_history"
    /\ ~prev.cached
    /\ last.op = "get_price_history"
    /\ last.error = "FetchError"
    /\ Asked(last.log) = <<"A", "B">>
    /\ last.log[1].ok
    /\ ~last.log[2].ok
    /\ price_cache = None

LoadFails(file) == ~file.exists \/ \E i \in 1..Len(file.rows) : file.rows[i] = "bad"

\* C7: validate_data_integrity raises nothing and returns a boolean, which is
\* False when load_trades fails (no file, a bad row), when there is no trade,
\* and when a fetch fails.
ValidateNeverRaises ==
    last.op = "validate_data_integrity" =>
        /\ last.error = "none"
        /\ last.verdict \in BOOLEAN
        /\ (LoadFails(last.file) \/ last.file.rows = <<>> \/ AnyFailed(last.log))
              => ~last.verdict

\* A validate_data_integrity call caught the failure of a fetch and returned
\* False.
ValidateNeverRaisesWitness ==
    /\ last.op = "validate_data_integrity"
    /\ last.caught = "FetchError"
    /\ AnyFailed(last.log)
    /\ last.error = "none"
    /\ ~last.verdict

\* C8: validate_data_integrity returns True only if every tracked symbol has
\* an entry in the panel with at least one value that is not missing.
ValidateTrueNeedsData ==
    (last.op = "validate_data_integrity" /\ last.verdict) =>
        \A s \in Range(tracked_symbols) :
            /\ price_cache # None
            /\ s \in DOMAIN Panel
            /\ \E d \in Range(Panel[s].index) : at(Panel[s], d) # NaN

\* C9: after clear_cache the cache is None, whatever it was, and the call
\* raises nothing; clearing a cleared cache changes nothing.
ClearCacheResets ==
    /\ last.op = "clear_cache" => price_cache = None /\ last.error = "none"
    /\ clear_cache(clear_cache(price_cache)) = clear_cache(price_cache)

\* clear_cache was called on a populated cache, and the cache is None.
ClearCacheResetsWitness ==
    /\ prev.cached
    /\ last.op = "clear_cache"
    /\ price_cache = None

\* C10: validate_data_integrity leaves the tracked symbols alone and leaves a
\* populated cache as it is; when load_trades fails or there is no trade it
\* leaves the cache as it is and invokes the fetcher zero times.
ValidateOnlyPopulates ==
    [][last'.op = "validate_data_integrity" =>
         /\ tracked_symbols' = tracked_symbols
         /\ price_cache # None => price_cache' = price_cache
         /\ (LoadFails(last'.file) \/ last'.file.rows = <<>>)
              => price_cache' = price_cache /\ last'.log = <<>>]_vars

\* validate_data_integrity found a trades file without a row and an empty
\* cache, with two symbols tracked: nothing was fetched, the cache is None.
ValidateOnlyPopulatesWitness ==
    /\ last.op = "validate_data_integrity"
    /\ last.file.exists
    /\ last.file.rows = <<>>
    /\ tracked_symbols = <<"A", "B">>
    /\ ~prev.cached
    /\ last.log = <<>>
    /\ price_cache = None
    /\ ~last.verdict

\* The fetched frames without the one of s.
Without(frames, s) == [t \in DOMAIN frames \ {s} |-> frames[t]]

\* C11: an empty fetched frame does not make the alignment fail (it fails
\* only on a frame with a repeated date); after a miss that succeeds, a
\* symbol whose fetched frame is empty has an entry, indexed by exactly the
\* dates of the other frames and missing at each of them, and every other
\* symbol's series is the one the alignment gives without that symbol.
EmptySeriesIsAllMissing ==
    /\ (last.error = "ValueError" \/ last.caught = "ValueError")
          => \E s \in DOMAIN last.raw : ~is_unique(last.raw[s].index)
    /\ Populated =>
         \A s \in DOMAIN last.raw :
             last.raw[s].index = <<>> =>
                 /\ s \in DOMAIN Panel
                 /\ \A d \in Dates :
                        d \in Range(Panel[s].index)
                            <=> \E t \in DOMAIN last.raw \ {s} :
                                    d \in Range(last.raw[t].index)
                 /\ \A d \in Range(Panel[s].index) : at(Panel[s], d) = NaN
                 /\ \A t \in DOMAIN Panel \ {s} :
                        Panel[t] = align(Without(last.raw, s)).frames[t]

\* A request for A and B got an empty frame for A and days 1 and 3 for B: A
\* is in the panel, indexed by days 1 and 3 and missing on both.
EmptySeriesIsAllMissingWitness ==
    /\ Populated
    /\ last.op = "get_price_history"
    /\ last.error = "none"
    /\ DOMAIN last.raw = {"A", "B"}
    /\ last.raw["A"] = Frame(<<>>, <<>>, 1)
    /\ last.raw["B"].index = <<1, 3>>
    /\ Panel["A"].index = <<1, 3>>
    /\ at(Panel["A"], 1) = NaN
    /\ at(Panel["A"], 3) = NaN
    /\ Panel["B"] = last.raw["B"]

\* C12: get_price_history called with no symbol on a cache that is None
\* returns an empty dict, raises nothing and invokes the fetcher zero times.
NoSymbolsGivesEmptyPanel ==
    (last.op = "get_price_history" /\ ~prev.cached /\ last.symbols = <<>>) =>
        /\ last.error = "none"
        /\ last.returned # None
        /\ DOMAIN TheValue(last.returned) = {}
        /\ last.log = <<>>

\* The first call on a new service asked for no symbol and got an empty dict.
NoSymbolsGivesEmptyPanelWitness ==
    /\ prev.op = "__init__"
    /\ ~prev.cached
    /\ last.op = "get_price_history"
    /\ last.symbols = <<>>
    /\ last.error = "none"
    /\ last.returned = Some(NoFrames)
    /\ last.log = <<>>

\* A complete aligned panel: one strictly increasing calendar for all its
\* series, and in each series no missing value after a value.
Aligned(panel) ==
    /\ SameIndex(panel)
    /\ \A s \in DOMAIN panel :
         /\ \A i, j \in 1..Len(panel[s].index) :
                i < j => panel[s].index[i] < panel[s].index[j]
         /\ \A d, e \in Range(panel[s].index) :
                (d < e /\ at(panel[s], d) # NaN) => at(panel[s], e) # NaN

\* C13: the cache is None or holds a complete aligned panel.  It becomes
\* populated only by a get_price_history or validate_data_integrity call that
\* succeeds, with a panel whose symbols are exactly the ones that call asked
\* for; once populated, it changes only by clear_cache, to None.
CacheIsNoneOrOnePanel ==
    [][/\ price_cache' # None => Aligned(TheValue(price_cache'))
       /\ (price_cache = None /\ price_cache' # None)
            => /\ last'.op \in {"get_price_history", "validate_data_integrity"}
               /\ last'.error = "none"
               /\ last'.caught = "none"
               /\ ~AnyFailed(last'.log)
               /\ DOMAIN TheValue(price_cache') = Range(last'.symbols)
       /\ (price_cache # None /\ price_cache' # price_cache)
            => last'.op = "clear_cache" /\ price_cache' = None]_vars

\* A request for A alone populated the cache, and a later
\* validate_data_integrity call that tracks A and B found it as it was.
CacheIsNoneOrOnePanelWitness ==
    /\ prev.cached
    /\ last.op = "validate_data_integrity"
    /\ tracked_symbols = <<"A", "B">>
    /\ ~LoadFails(last.file)
    /\ last.file.rows # <<>>
    /\ price_cache # None
    /\ DOMAIN Panel = {"A"}
    /\ Panel["A"].index = <<1, 2, 3>>
    /\ last.log = <<>>

\* C14: in a call that missed the cache, the alignment runs only after the
\* fetcher has been invoked for every entry of the request and none of the
\* invocations failed; a call with a failed fetch runs no alignment.
AlignmentAfterAllFetches ==
    /\ last.aligned =>
         /\ ~prev.cached
         /\ ~AnyFailed(last.log)
         /\ Asked(last.log) = last.symbols
    /\ AnyFailed(last.log) => ~last.aligned

\* A request for A then B missed the cache, both fetches succeeded, and the
\* alignment ran and populated the cache.
AlignmentAfterAllFetchesWitness ==
    /\ last.op = "get_price_history"
    /\ last.symbols = <<"A", "B">>
    /\ last.aligned
    /\ Len(last.log) = 2
    /\ Populated

\* C15 as stated: within one call the fetcher is invoked at most once for
\* each requested symbol, and no invocation follows one that failed.
AtMostOncePerSymbol ==
    last.op \in {"get_price_history", "validate_data_integrity"} =>
        /\ \A s \in Symbols : Times(last.log, s) <= 1
        /\ \A i \in 1..Len(last.log) : ~last.log[i].ok => i = Len(last.log)

\* C15, amended: within one call the fetcher is invoked for the entries of
\* the symbol list in list order, at most once per entry, and no invocation
\* follows one that failed; the failed fetch is not attempted again.
FailedFetchNotRetried ==
    last.op \in {"get_price_history", "validate_data_integrity"} =>
        /\ IsPrefix(Asked(last.log), last.symbols)
        /\ \A i \in 1..Len(last.log) : ~last.log[i].ok => i = Len(last.log)

\* A request for A then B whose fetch of A failed: the call raised after
\* that one invocation, with B not fetched.
FailedFetchNotRetriedWitness ==
    /\ last.op = "get_price_history"
    /\ last.symbols = <<"A", "B">>
    /\ last.error = "FetchError"
    /\ Asked(last.log) = <<"A">>
    /\ AnyFailed(last.log)

\* C16: a get_price_history call with no symbol on an empty cache stores the
\* empty panel.  While the cache holds the empty panel, a get_price_history
\* call returns the empty panel, invokes the fetcher zero times and leaves
\* the cache as it is, whatever symbols it asks for, and a
\* validate_data_integrity call with at least one tracked symbol returns
\* False, also with zero invocations and the cache left as it is.
EmptyPanelSticks ==
    [][/\ (price_cache = None /\ last'.op = "get_price_history" /\ last'.symbols = <<>>)
            => price_cache' = Some(NoFrames)
       /\ (price_cache = Some(NoFrames) /\ last'.op = "get_price_history")
            => /\ last'.error = "none"
               /\ last'.returned = Some(NoFrames)
               /\ last'.log = <<>>
               /\ price_cache' = price_cache
       /\ (price_cache = Some(NoFrames) /\ last'.op = "validate_data_integrity"
             /\ tracked_symbols # <<>>)
            => /\ ~last'.verdict
               /\ last'.error = "none"
               /\ last'.log = <<>>
               /\ price_cache' = price_cache]_vars

\* With A and B tracked and a readable, non-empty trade file,
\* validate_data_integrity found the empty panel in the cache and returned
\* False without a fetch.
EmptyPanelSticksWitness ==
    /\ prev.cached
    /\ price_cache = Some(NoFrames)
    /\ last.op = "validate_data_integrity"
    /\ tracked_symbols = <<"A", "B">>
    /\ ~LoadFails(last.file)
    /\ last.file.rows # <<>>
    /\ last.symbols = <<"A", "B">>
    /\ ~last.verdict
    /\ last.log = <<>>

\* The cache holds a panel that lacks a tracked symbol.
OmitsTracked ==
    /\ price_cache # None
    /\ \E i \in 1..Len(tracked_symbols) : tracked_symbols[i] \notin DOMAIN Panel

\* C17 as stated: while the cache holds a panel that lacks a tracked symbol,
\* validate_data_integrity returns False and invokes the fetcher zero times;
\* the validate_data_integrity call that follows clear_cache invokes the
\* fetcher for the tracked symbols, all of them.
ValidateRefetchesAllTracked ==
    [][/\ (OmitsTracked /\ last'.op = "validate_data_integrity")
            => /\ ~last'.verdict
               /\ last'.log = <<>>
               /\ price_cache' = price_cache
       /\ (last.op = "clear_cache" /\ last'.op = "validate_data_integrity")
            => Asked(last'.log) = tracked_symbols]_vars

\* C17, amended: while the cache holds a panel that lacks a tracked symbol,
\* validate_data_integrity returns False, invokes the fetcher zero times and
\* leaves the cache as it is; the validate_data_integrity call that follows
\* clear_cache invokes the fetcher zero times when load_trades fails or there
\* is no trade, and otherwise for the tracked symbols in their order from the
\* first one on, up to the first invocation that fails, all of them when
\* none fails.
StalePanelFailsValidation ==
    [][/\ (OmitsTracked /\ last'.op = "validate_data_integrity")
            => /\ ~last'.verdict
               /\ last'.log = <<>>
               /\ price_cache' = price_cache
       /\ (last.op = "clear_cache" /\ last'.op = "validate_data_integrity")
            => IF LoadFails(last'.file) \/ last'.file.rows = <<>>
               THEN last'.log = <<>>
               ELSE /\ IsPrefix(Asked(last'.log), tracked_symbols)
                    /\ tracked_symbols # <<>> => last'.log # <<>>
                    /\ \A i \in 1..Len(last'.log) :
                           ~last'.log[i].ok => i = Len(last'.log)
                    /\ ~AnyFailed(last'.log) => Asked(last'.log) = tracked_symbols]_vars

\* With A and B tracked, the cache held a panel for B alone, and
\* validate_data_integrity, with a readable non-empty trade file, returned
\* False without fetching A.
StalePanelFailsValidationWitness ==
    /\ prev.cached
    /\ price_cache # None
    /\ DOMAIN Panel = {"B"}
    /\ ~empty(Panel["B"])
    /\ tracked_symbols = <<"A", "B">>
    /\ last.op = "validate_data_integrity"
    /\ ~LoadFails(last.file)
    /\ last.file.rows # <<>>
    /\ ~last.verdict
    /\ last.log = <<>>

====
